---- MODULE Spec2Model ----
(***************************************************************************)
(* The Marvel API wrapper of src/main.py: the request signer, the paged    *)
(* fetcher with its client-side name filter, the batch aggregator and the  *)
(* five endpoints that call the upstream API.                              *)
(*                                                                         *)
(* A string is the sequence of its character codes ("abc" is               *)
(* <<97, 98, 99>>), so that hashing, escaping and matching are computed    *)
(* character by character as the code computes them.                       *)
(***************************************************************************)
EXTENDS Integers, Sequences, FiniteSets, TLC

(***************************************************************************)
(* Bounds of the model.                                                    *)
(***************************************************************************)
\* the largest `limit` a client passes to /characters_all
MaxLimit == 101

\* how far from a multiple of BATCH_SIZE the limits of an aggregation lie
Margin == 10
\* the largest `offset` a client passes
MaxOffset == 1
\* how many entries more than requested the upstream may put in a page
MaxOver == 1
\* the longest page the upstream returns to a name lookup
MaxNamePage == 2
\* the upstream catalog repeats its names with this period
CatalogPeriod == 60
\* the most upstream calls one run is followed for
MaxCalls == 4

(***************************************************************************)
(* Module constants, src/main.py:14-17.                                    *)
(***************************************************************************)
\* "pubkey01"
PUBLIC_KEY == <<112, 117, 98, 107, 101, 121, 48, 49>>
\* "privkey1"
PRIVATE_KEY == <<112, 114, 105, 118, 107, 101, 121, 49>>
BATCH_SIZE == 50

(***************************************************************************)
(* hashlib.md5 (RFC 1321).  A string is the sequence of its character      *)
(* codes; a 32-bit word is <<high 16 bits, low 16 bits>>.                  *)
(***************************************************************************)
MD5_K ==
   <<
      <<55146, 42104>>, <<59591, 46934>>, <<9248, 28891>>, <<49597, 52974>>,
      <<62844, 4015>>, <<18311, 50730>>, <<43056, 17939>>, <<64838, 38145>>,
      <<27008, 39128>>, <<35652, 63407>>, <<65535, 23473>>, <<35164, 55230>>,
      <<27536, 4386>>, <<64920, 29075>>, <<42617, 17294>>, <<18868, 2081>>,
      <<63006, 9570>>, <<49216, 45888>>, <<9822, 23121>>, <<59830, 51114>>,
      <<54831, 4189>>, <<580, 5203>>, <<55457, 59009>>, <<59347, 64456>>,
      <<8673, 52710>>, <<49975, 2006>>, <<62677, 3463>>, <<17754, 5357>>,
      <<43491, 59653>>, <<64751, 41976>>, <<26479, 729>>, <<36138, 19594>>,
      <<65530, 14658>>, <<34673, 63105>>, <<28061, 24866>>, <<64997, 14348>>,
      <<42174, 59972>>, <<19422, 53161>>, <<63163, 19296>>, <<48831, 48240>>,
      <<10395, 32454>>, <<60065, 10234>>, <<54511, 12421>>, <<1160, 7429>>,
      <<55764, 53305>>, <<59099, 39397>>, <<8098, 31992>>, <<50348, 22117>>,
      <<62505, 8772>>, <<17194, 65431>>, <<43924, 9127>>, <<64659, 41017>>,
      <<25947, 22979>>, <<36620, 52370>>, <<65519, 62589>>, <<34180, 24017>>,
      <<28584, 32335>>, <<65068, 59104>>, <<41729, 17172>>, <<19976, 4513>>,
      <<63315, 32386>>, <<48442, 62005>>, <<10967, 53947>>, <<60294, 54161>>
   >>

MD5_S ==
   <<7, 12, 17, 22, 7, 12, 17, 22, 7, 12, 17, 22, 7, 12, 17, 22,
     5, 9, 14, 20, 5, 9, 14, 20, 5, 9, 14, 20, 5, 9, 14, 20,
     4, 11, 16, 23, 4, 11, 16, 23, 4, 11, 16, 23, 4, 11, 16, 23,
     6, 10, 15, 21, 6, 10, 15, 21, 6, 10, 15, 21, 6, 10, 15, 21>>

MD5_IV == << <<26437, 8961>>, <<61389, 43913>>, <<39098, 56574>>, <<4146, 21622>> >>

RECURSIVE MuxBits(_, _, _, _)
\* bit by bit over n bits: (x AND y) OR (NOT x AND z)
MuxBits(x, y, z, n) ==
   IF n = 1 THEN (IF x = 1 THEN y ELSE z)
   ELSE LET h == n \div 2
            p == 2^h
        IN  MuxBits(x % p, y % p, z % p, h)
            + (p * MuxBits(x \div p, y \div p, z \div p, n - h))

RECURSIVE XorBits(_, _, _, _)
\* bit by bit over n bits: x XOR y XOR z
XorBits(x, y, z, n) ==
   IF n = 1 THEN (x + y + z) % 2
   ELSE LET h == n \div 2
            p == 2^h
        IN  XorBits(x % p, y % p, z % p, h)
            + (p * XorBits(x \div p, y \div p, z \div p, n - h))

RECURSIVE OrNotXorBits(_, _, _, _)
\* bit by bit over n bits: y XOR (x OR NOT z)
OrNotXorBits(x, y, z, n) ==
   IF n = 1 THEN ((IF z = 1 THEN x ELSE 1) + y) % 2
   ELSE LET h == n \div 2
            p == 2^h
        IN  OrNotXorBits(x % p, y % p, z % p, h)
            + (p * OrNotXorBits(x \div p, y \div p, z \div p, n - h))

WordAdd(a, b) ==
   LET lo == a[2] + b[2]
       hi == a[1] + b[1] + (lo \div 65536)
   IN  <<hi % 65536, lo % 65536>>

RotateLeft(w, s) ==
   LET x == IF s >= 16 THEN <<w[2], w[1]>> ELSE w
       r == s % 16
   IN  IF r = 0 THEN x
       ELSE <<((x[1] * (2^r)) % 65536) + (x[2] \div (2^(16 - r))),
              ((x[2] * (2^r)) % 65536) + (x[1] \div (2^(16 - r)))>>

MD5Pad(data) ==
   LET n     == Len(data)
       zeros == (119 - (n % 64)) % 64
       bits  == 8 * n
   IN  data \o <<128>> \o [i \in 1..zeros |-> 0]
            \o <<bits % 256, (bits \div 256) % 256, (bits \div 65536) % 256,
                 (bits \div 16777216) % 256, 0, 0, 0, 0>>

\* the 16 little-endian words of the 64-byte block that starts after byte `at`
MD5Block(bytes, at) ==
   [j \in 1..16 |->
      LET p == at + 4 * (j - 1)
      IN  <<bytes[p + 3] + 256 * bytes[p + 4], bytes[p + 1] + 256 * bytes[p + 2]>>]

MD5Step(st, M, i) ==
   LET A == st[1]
       B == st[2]
       C == st[3]
       D == st[4]
       F == IF i < 16 THEN <<MuxBits(B[1], C[1], D[1], 16), MuxBits(B[2], C[2], D[2], 16)>>
            ELSE IF i < 32 THEN <<MuxBits(D[1], B[1], C[1], 16), MuxBits(D[2], B[2], C[2], 16)>>
            ELSE IF i < 48 THEN <<XorBits(B[1], C[1], D[1], 16), XorBits(B[2], C[2], D[2], 16)>>
            ELSE <<OrNotXorBits(B[1], C[1], D[1], 16), OrNotXorBits(B[2], C[2], D[2], 16)>>
       g == IF i < 16 THEN i
            ELSE IF i < 32 THEN (5 * i + 1) % 16
            ELSE IF i < 48 THEN (3 * i + 5) % 16
            ELSE (7 * i) % 16
       sum == WordAdd(WordAdd(A, F), WordAdd(MD5_K[i + 1], M[g + 1]))
   IN  <<D, WordAdd(B, RotateLeft(sum, MD5_S[i + 1])), B, C>>

RECURSIVE MD5Rounds(_, _, _)
\* the operations st.i .. until-1 on block M, from
\* st = [i |-> operations done, v |-> <<A, B, C, D>>]
MD5Rounds(st, M, until) ==
   IF st.i = until THEN st
   ELSE MD5Rounds([i |-> st.i + 1, v |-> MD5Step(st.v, M, st.i)], M, until)

\* the four rounds of 16 operations each on one block
MD5Compress(h, M) ==
   LET r1 == MD5Rounds([i |-> 0, v |-> h], M, 16)
       r2 == MD5Rounds(r1, M, 32)
       r3 == MD5Rounds(r2, M, 48)
   IN  MD5Rounds(r3, M, 64).v

RECURSIVE MD5Blocks(_, _)
\* the chaining value after the first k 64-byte blocks
MD5Blocks(bytes, k) ==
   IF k = 0 THEN MD5_IV
   ELSE LET h  == MD5Blocks(bytes, k - 1)
            st == MD5Compress(h, MD5Block(bytes, 64 * (k - 1)))
        IN  [j \in 1..4 |-> WordAdd(h[j], st[j])]

\* hashlib.md5(data).digest(): 16 bytes
md5(data) ==
   LET bytes == MD5Pad(data)
       h     == MD5Blocks(bytes, Len(bytes) \div 64)
   IN  [n \in 1..16 |->
          LET w == h[((n - 1) \div 4) + 1]
              k == (n - 1) % 4
          IN  IF k = 0 THEN w[2] % 256
              ELSE IF k = 1 THEN w[2] \div 256
              ELSE IF k = 2 THEN w[1] % 256
              ELSE w[1] \div 256]

HexDigit(n) == IF n < 10 THEN 48 + n ELSE 87 + n

\* .hexdigest(): two lowercase hexadecimal digits per byte
hexdigest(bytes) ==
   [n \in 1..(2 * Len(bytes)) |->
      LET b == bytes[(n + 1) \div 2]
      IN  IF n % 2 = 1 THEN HexDigit(b \div 16) ELSE HexDigit(b % 16)]

(***************************************************************************)
(* The request signer.                                                     *)
(***************************************************************************)
RECURSIVE Decimal(_)
\* str(n) of an integer n >= 0
Decimal(n) ==
   IF n < 10 THEN <<48 + n>> ELSE Append(Decimal(n \div 10), 48 + (n % 10))

\* str(t) of the float time.time() returned, t = t.s + t.c / 100 seconds:
\* the shortest decimal that reads back as t, with at least one fraction digit
StrTime(t) ==
   Decimal(t.s) \o <<46>> \o
      (IF t.c % 10 = 0 THEN <<48 + (t.c \div 10)>>
       ELSE <<48 + (t.c \div 10), 48 + (t.c % 10)>>)

\* what time.time() may return when a call is signed
ClockReadings == {[s |-> 1730577600, c |-> 25], [s |-> 1730577601, c |-> 50]}

\* a signer that joins the keys the other way round
hash_keys_swapped(ts) ==
   LET to_hash == ts \o PUBLIC_KEY \o PRIVATE_KEY
   IN  hexdigest(md5(to_hash))

generate_marvel_hash(ts) ==
   LET to_hash == ts \o PRIVATE_KEY \o PUBLIC_KEY
   IN  hexdigest(md5(to_hash))

get_auth_params(now) ==
   LET ts == StrTime(now)
   IN  [ts |-> ts, apikey |-> PUBLIC_KEY, hash |-> generate_marvel_hash(ts),
        orderBy |-> "name"]

\* what get_auth_params() returns at each clock reading, worked out once
AuthParams == {<<now, get_auth_params(now)>> : now \in ClockReadings}

\* lines 146, 69, 310: the parameters of a call signed at the reading `now`
signed_at(now) == (CHOOSE e \in AuthParams : e[1] = now)[2]

(***************************************************************************)
(* The name filter of fetch_character_batch: str.split, re.escape,         *)
(* str.replace, re.compile(..., re.IGNORECASE) and regex.search.           *)
(***************************************************************************)
\* the characters str.split() and the regex class \s take for whitespace
Whitespace == {9, 10, 11, 12, 13, 32}

RECURSIVE split(_)
\* s.split(): the words of s, separated by runs of whitespace
split(s) ==
   IF s = <<>> THEN <<>>
   ELSE IF s[1] \in Whitespace THEN split(Tail(s))
   ELSE LET rest == split(Tail(s))
        IN  IF Len(s) > 1 /\ s[2] \notin Whitespace
            THEN <<(<<s[1]>> \o rest[1])>> \o Tail(rest)
            ELSE <<(<<s[1]>>)>> \o rest

\* the characters re.escape puts a backslash before:
\* ( ) [ ] { } ? * + - | ^ $ \ . & ~ # space \t \n \r \v \f
SpecialChars ==
   {40, 41, 91, 93, 123, 125, 63, 42, 43, 45, 124, 94, 36, 92, 46, 38, 126, 35,
    32, 9, 10, 13, 11, 12}

RECURSIVE re_escape(_)
re_escape(s) ==
   IF s = <<>> THEN <<>>
   ELSE (IF s[1] \in SpecialChars THEN <<92, s[1]>> ELSE <<s[1]>>)
        \o re_escape(Tail(s))

RECURSIVE str_replace(_, _, _)
\* s.replace(old, new): every occurrence, leftmost first, none overlapping
str_replace(s, old, new) ==
   IF Len(s) < Len(old) THEN s
   ELSE IF SubSeq(s, 1, Len(old)) = old
        THEN new \o str_replace(SubSeq(s, Len(old) + 1, Len(s)), old, new)
        ELSE <<s[1]>> \o str_replace(Tail(s), old, new)

\* the text [\s-]* that replaces an escaped space
SeparatorRun == <<91, 92, 115, 45, 93, 42>>

\* lines 158-160: the pattern text built from the query
build_pattern(name) ==
   <<94>> \o str_replace(re_escape(name), <<92, 32>>, SeparatorRun)

\* the members of a bracketed class whose text runs from p[i] to the "]"
RECURSIVE ClassMembers(_, _)
ClassMembers(p, i) ==
   IF p[i] = 93 THEN {}
   ELSE IF p[i] = 92 /\ p[i + 1] = 115 THEN Whitespace \cup ClassMembers(p, i + 2)
   ELSE IF p[i] = 92 THEN {p[i + 1]} \cup ClassMembers(p, i + 2)
   ELSE {p[i]} \cup ClassMembers(p, i + 1)

RECURSIVE ClassEnd(_, _)
\* the index of the "]" that closes the class whose text starts at p[i]
ClassEnd(p, i) ==
   IF p[i] = 93 THEN i
   ELSE IF p[i] = 92 THEN ClassEnd(p, i + 2)
   ELSE ClassEnd(p, i + 1)

RECURSIVE re_compile(_, _)
\* re.compile: the items of the pattern text p from index i on.  The texts
\* build_pattern produces hold "^", escaped characters, plain characters
\* and bracketed classes, starred or not
re_compile(p, i) ==
   IF i > Len(p) THEN <<>>
   ELSE IF p[i] = 94 THEN <<[kind |-> "start"]>> \o re_compile(p, i + 1)
   ELSE IF p[i] = 92
        THEN <<[kind |-> "char", c |-> p[i + 1]]>> \o re_compile(p, i + 2)
   ELSE IF p[i] = 91
        THEN LET e == ClassEnd(p, i + 1)
                 starred == e < Len(p) /\ p[e + 1] = 42
             IN  <<[kind |-> IF starred THEN "class*" ELSE "class",
                    members |-> ClassMembers(p, i + 1)]>>
                 \o re_compile(p, IF starred THEN e + 2 ELSE e + 1)
   ELSE <<[kind |-> "char", c |-> p[i]]>> \o re_compile(p, i + 1)

\* re.IGNORECASE on ASCII letters
Lower(c) == IF c >= 65 /\ c <= 90 THEN c + 32 ELSE c

RECURSIVE MatchAt(_, _, _, _)
\* the items of regex from index k on match s from position j on
MatchAt(regex, k, s, j) ==
   IF k > Len(regex) THEN TRUE
   ELSE LET item == regex[k]
        IN  IF item.kind = "start" THEN j = 1 /\ MatchAt(regex, k + 1, s, j)
            ELSE IF item.kind = "char"
                 THEN j <= Len(s) /\ Lower(s[j]) = Lower(item.c)
                      /\ MatchAt(regex, k + 1, s, j + 1)
            ELSE IF item.kind = "class"
                 THEN j <= Len(s) /\ s[j] \in item.members
                      /\ MatchAt(regex, k + 1, s, j + 1)
            ELSE \/ (j <= Len(s) /\ s[j] \in item.members
                     /\ MatchAt(regex, k, s, j + 1))
                 \/ MatchAt(regex, k + 1, s, j)

\* regex.search(s): a match that starts anywhere in s
regex_search(regex, s) == \E j \in 1..(Len(s) + 1) : MatchAt(regex, 1, s, j)

\* line 161
compile_name(name) == re_compile(build_pattern(name), 1)

(***************************************************************************)
(* fetch_character_batch, lines 127-190, on either side of the await.      *)
(***************************************************************************)
\* a falsy name: None (the aggregator passes none) or ""
NoName == <<>>

\* line 152 raises IndexError when the name holds no word
name_has_word(name) == split(name) # <<>>

\* lines 146-164: the query parameters of the call
fetch_params(limit, offset, name, now) ==
   LET params == signed_at(now) @@ [limit |-> limit, offset |-> offset]
   IN  IF name # NoName
       THEN params @@ [nameStartsWith |-> split(name)[1]]
       ELSE params

\* a fetch that takes only the 4xx and 5xx statuses for failures
failed_from_400(status_code) == status_code >= 400

\* line 169
fetch_failed(status_code) == status_code # 200

flatten(char) == [name |-> char.name, comics_count |-> char.comics.available]

\* lines 175-190: the list returned for a 200 response with these results
fetch_result(name, results) ==
   IF name # NoName /\ results # <<>>
   THEN LET regex == compile_name(name)
            kept  == SelectSeq(results, LAMBDA char : regex_search(regex, char.name))
        IN  [k \in 1..Len(kept) |-> flatten(kept[k])]
   ELSE [i \in 1..Len(results) |-> flatten(results[i])]

(***************************************************************************)
(* The upstream API, as far as the wrapper can tell: it answers a call     *)
(* with any status and, with status 200, with a page of any length.        *)
(***************************************************************************)
UpstreamStatuses == {200, 204, 401, 404, 500}

\* the name of the catalog's i-th character: "H0", "H1", ...
CatalogName(i) == <<72>> \o Decimal(i % CatalogPeriod)

CatalogEntry(i) == [name |-> CatalogName(i), comics |-> [available |-> i]]

\* as many entries as a run of the model can reach
CatalogSize == MaxOffset + MaxLimit + (MaxCalls * MaxOver)

RECURSIVE CatalogFrom(_, _)
\* the n entries from the i-th on
CatalogFrom(i, n) ==
   IF n = 0 THEN <<>>
   ELSE IF n = 1 THEN <<CatalogEntry(i)>>
   ELSE LET h == n \div 2
        IN  CatalogFrom(i, h) \o CatalogFrom(i + h, n - h)

\* the upstream's characters, in the order of orderBy=name
Catalog == CatalogFrom(0, CatalogSize)

\* the n catalog entries from `offset` on
Window(offset, n) == SubSeq(Catalog, offset + 1, offset + n)

\* the characters a name lookup may be answered with:
\* "Spider-Man", "SPIDER-WOMAN", "Spiderman", "Iron Man", "S.H.I.E.L.D."
SampleCharacters ==
   {[name |-> <<83, 112, 105, 100, 101, 114, 45, 77, 97, 110>>,
     comics |-> [available |-> 2572]],
    [name |-> <<83, 80, 73, 68, 69, 82, 45, 87, 79, 77, 65, 78>>,
     comics |-> [available |-> 310]],
    [name |-> <<83, 112, 105, 100, 101, 114, 109, 97, 110>>,
     comics |-> [available |-> 7]],
    [name |-> <<73, 114, 111, 110, 32, 77, 97, 110>>,
     comics |-> [available |-> 2411]],
    [name |-> <<83, 46, 72, 46, 73, 46, 69, 46, 76, 46, 68, 46>>,
     comics |-> [available |-> 0]]}

NamePages == UNION {[1..n -> SampleCharacters] : n \in 0..MaxNamePage}

\* the pages a 200 response to a call with these parameters may hold
UpstreamPages(params) ==
   IF "nameStartsWith" \in DOMAIN params THEN NamePages
   ELSE {Window(params.offset, n) : n \in 0..(params.limit + MaxOver)}

(***************************************************************************)
(* What a client may ask.                                                  *)
(***************************************************************************)
\* the limits an aggregation is asked for: those around the multiples of
\* BATCH_SIZE, where the number and the sizes of the pages change
AggregationLimits ==
   {l \in 1..MaxLimit : \/ l % BATCH_SIZE <= Margin
                         \/ l % BATCH_SIZE >= BATCH_SIZE - Margin}

\* "spider", "spider man", "SPIDER", "man", "iron  man", "s.", "spider-man", " "
Queries ==
   {<<115, 112, 105, 100, 101, 114>>,
    <<115, 112, 105, 100, 101, 114, 32, 109, 97, 110>>,
    <<83, 80, 73, 68, 69, 82>>,
    <<109, 97, 110>>,
    <<105, 114, 111, 110, 32, 32, 109, 97, 110>>,
    <<115, 46>>,
    <<115, 112, 105, 100, 101, 114, 45, 109, 97, 110>>,
    <<32>>}

\* the limits passed to the endpoints that make one call
SmallLimits == {1, 10}

(***************************************************************************)
(* What the caller gets: the value an endpoint returns, the HTTPException  *)
(* it raises, or the 500 of an exception nothing handles.                  *)
(***************************************************************************)
Returned(body) == [status_code |-> 200, body |-> body]

HTTPException(status_code, detail) == [status_code |-> status_code, detail |-> detail]

Unhandled == [status_code |-> 500, detail |-> <<"Internal Server Error">>]

NoResponse == [status_code |-> 0]

(***************************************************************************)
(* The state: where the one request being served stands.                   *)
(***************************************************************************)
VARIABLES
   pc,                 \* "idle", "loop", "await" (a call is in flight), "responded"
   endpoint,           \* the route being served
   limit,              \* the handler's arguments
   offset,
   name,
   total_retrieved,    \* the locals of get_all_characters_names
   characters_comics,
   calls,              \* the upstream calls made, in order: [url, params]
   replies,            \* the upstream responses received: [status_code, results]
   response            \* what the caller got

vars ==
   <<pc, endpoint, limit, offset, name, total_retrieved, characters_comics,
     calls, replies, response>>

Init ==
   /\ pc = "idle"
   /\ endpoint = "none"
   /\ limit = 0
   /\ offset = 0
   /\ name = NoName
   /\ total_retrieved = 0
   /\ characters_comics = <<>>
   /\ calls = <<>>
   /\ replies = <<>>
   /\ response = NoResponse

Call(url, params) == [url |-> url, params |-> params]

Reply(status_code, results) == [status_code |-> status_code, results |-> results]

\* the call in flight while pc = "await"
request == calls[Len(calls)]

\* what the upstream may answer the call in flight with
Answers ==
   {<<200, page>> : page \in UpstreamPages(request.params)}
      \cup {<<s, <<>>>> : s \in UpstreamStatuses \ {200}}

\* for character in batch: d[character["name"]] = character["comics_count"]
\* (a later entry of the same name overwrites an earlier one)
dict_update(d, batch) ==
   LET names   == {batch[i].name : i \in 1..Len(batch)}
       last(n) == CHOOSE i \in 1..Len(batch) :
                     /\ batch[i].name = n
                     /\ \A j \in (i + 1)..Len(batch) : batch[j].name # n
   IN  [n \in DOMAIN d \cup names |->
          IF n \in names THEN batch[last(n)].comics_count ELSE d[n]]

(***************************************************************************)
(* GET /characters and GET /comics, lines 58-85 and 299-325.               *)
(***************************************************************************)
listing_params(l, o, now) == signed_at(now) @@ [limit |-> l, offset |-> o]

get_characters_with_info(l, o, now) ==
   /\ pc = "idle"
   /\ pc' = "await"
   /\ endpoint' = "/characters"
   /\ limit' = l
   /\ offset' = o
   /\ calls' = <<Call("/characters", listing_params(l, o, now))>>
   /\ UNCHANGED <<name, total_retrieved, characters_comics, replies, response>>

\* lines 79-85
characters_response(status_code, results) ==
   IF status_code # 200
   THEN HTTPException(status_code, <<"Failed to fetch characters">>)
   ELSE Returned(results)

characters_replied ==
   /\ pc = "await"
   /\ endpoint = "/characters"
   /\ \E a \in Answers :
      LET status_code == a[1]
          results     == a[2]
      IN /\ replies' = Append(replies, Reply(status_code, results))
         /\ response' = characters_response(status_code, results)
         /\ pc' = "responded"
         /\ UNCHANGED <<endpoint, limit, offset, name, total_retrieved,
                        characters_comics, calls>>

get_comics(l, o, now) ==
   /\ pc = "idle"
   /\ pc' = "await"
   /\ endpoint' = "/comics"
   /\ limit' = l
   /\ offset' = o
   /\ calls' = <<Call("/comics", listing_params(l, o, now))>>
   /\ UNCHANGED <<name, total_retrieved, characters_comics, replies, response>>

\* lines 320-325
comics_response(status_code, results) ==
   IF status_code # 200
   THEN HTTPException(status_code, <<"Failed to fetch comics">>)
   ELSE Returned(results)

comics_replied ==
   /\ pc = "await"
   /\ endpoint = "/comics"
   /\ \E a \in Answers :
      LET status_code == a[1]
          results     == a[2]
      IN /\ replies' = Append(replies, Reply(status_code, results))
         /\ response' = comics_response(status_code, results)
         /\ pc' = "responded"
         /\ UNCHANGED <<endpoint, limit, offset, name, total_retrieved,
                        characters_comics, calls>>

(***************************************************************************)
(* GET /characters_all, lines 236-266: the batch aggregator.               *)
(***************************************************************************)
get_all_characters_names(l, o) ==
   /\ pc = "idle"
   /\ pc' = "loop"
   /\ endpoint' = "/characters_all"
   /\ limit' = l
   /\ offset' = o
   /\ characters_comics' = <<>>
   /\ total_retrieved' = 0
   /\ UNCHANGED <<name, calls, replies, response>>

\* a loop that also goes round when the total has come up to the limit
continues_at_limit(total, l) == total <= l

\* line 252
loop_continues(total, l) == total < l

\* a loop that asks for a whole batch every time
whole_batch(total, l) == BATCH_SIZE

\* line 253
next_batch_size(total, l) == IF BATCH_SIZE < l - total THEN BATCH_SIZE ELSE l - total

\* a loop that asks for every page at the starting offset
offset_not_advanced(total, o) == o

\* line 254
next_offset(total, o) == o + total

\* a loop that takes a full page for a short one
short_or_full(batch) == Len(batch) <= BATCH_SIZE

\* a loop that never takes a page for a short one
never_short(batch) == FALSE

\* lines 261-264
page_is_short(batch) == Len(batch) < BATCH_SIZE

\* line 252: the loop goes round once more
another_page ==
   /\ pc = "loop"
   /\ loop_continues(total_retrieved, limit)
   /\ Len(calls) < MaxCalls

\* lines 252-254: one more page is asked for
loop_call(now) ==
   /\ another_page
   /\ calls' = Append(calls,
                  Call("/characters",
                       fetch_params(next_batch_size(total_retrieved, limit),
                                    next_offset(total_retrieved, offset),
                                    NoName, now)))
   /\ pc' = "await"
   /\ UNCHANGED <<endpoint, limit, offset, name, total_retrieved,
                  characters_comics, replies, response>>

\* lines 252, 266: the while condition fails and the mapping is returned
loop_exit ==
   /\ pc = "loop"
   /\ ~loop_continues(total_retrieved, limit)
   /\ response' = Returned(characters_comics)
   /\ pc' = "responded"
   /\ UNCHANGED <<endpoint, limit, offset, name, total_retrieved,
                  characters_comics, calls, replies>>

\* lines 169-173 and 255-266: the page arrives
page_replied ==
   /\ pc = "await"
   /\ endpoint = "/characters_all"
   /\ \E a \in Answers :
      LET status_code == a[1]
          results     == a[2]
      IN /\ replies' = Append(replies, Reply(status_code, results))
         /\ IF fetch_failed(status_code)
            THEN /\ response' = HTTPException(status_code, <<"Failed to fetch characters">>)
                 /\ pc' = "responded"
                 /\ UNCHANGED <<total_retrieved, characters_comics>>
            ELSE LET batch == fetch_result(NoName, results)
                 IN  /\ total_retrieved' = total_retrieved + Len(batch)
                     /\ characters_comics' = dict_update(characters_comics, batch)
                     /\ IF page_is_short(batch)
                        THEN /\ response' = Returned(characters_comics')
                             /\ pc' = "responded"
                        ELSE /\ pc' = "loop"
                             /\ UNCHANGED response
         /\ UNCHANGED <<endpoint, limit, offset, name, calls>>

(***************************************************************************)
(* GET /characters/{character_name}, lines 274-296.                        *)
(***************************************************************************)
get_character_by_name(n, l, o, now) ==
   /\ pc = "idle"
   /\ endpoint' = "/characters/{character_name}"
   /\ limit' = l
   /\ offset' = o
   /\ name' = n
   /\ IF name_has_word(n)
      THEN /\ calls' = <<Call("/characters", fetch_params(l, o, n, now))>>
           /\ pc' = "await"
           /\ UNCHANGED response
      ELSE /\ response' = Unhandled
           /\ pc' = "responded"
           /\ UNCHANGED calls
   /\ UNCHANGED <<total_retrieved, characters_comics, replies>>

\* lines 169-173 and 288-296
character_response(character_name, status_code, results) ==
   IF fetch_failed(status_code)
   THEN HTTPException(status_code, <<"Failed to fetch characters">>)
   ELSE LET characters == fetch_result(character_name, results)
        IN  IF characters = <<>>
            THEN HTTPException(404, <<"No character found with name ", character_name>>)
            ELSE Returned(dict_update(<<>>, characters))

character_replied ==
   /\ pc = "await"
   /\ endpoint = "/characters/{character_name}"
   /\ \E a \in Answers :
      LET status_code == a[1]
          results     == a[2]
      IN /\ replies' = Append(replies, Reply(status_code, results))
         /\ response' = character_response(name, status_code, results)
         /\ pc' = "responded"
         /\ UNCHANGED <<endpoint, limit, offset, name, total_retrieved,
                        characters_comics, calls>>

(***************************************************************************)
(* GET /characters/search/{name}, lines 216-233 and 269-271.               *)
(***************************************************************************)
search_characters_endpoint(n, l, now) ==
   /\ pc = "idle"
   /\ endpoint' = "/characters/search/{name}"
   /\ limit' = l
   /\ offset' = 0
   /\ name' = n
   /\ IF name_has_word(n)
      THEN /\ calls' = <<Call("/characters", fetch_params(l, 0, n, now))>>
           /\ pc' = "await"
           /\ UNCHANGED response
      ELSE /\ response' = Unhandled
           /\ pc' = "responded"
           /\ UNCHANGED calls
   /\ UNCHANGED <<total_retrieved, characters_comics, replies>>

\* a wrapper that answers every failure of the fetch with a 500
search_error_as_500(e) ==
   HTTPException(500, <<"Error searching for character: ">> \o e.detail)

\* lines 229-233: the HTTPException e of the fetch, raised again
search_error(e) ==
   HTTPException(e.status_code, <<"Error searching for character: ">> \o e.detail)

\* lines 169-173, 226-233 and 271
search_response(search_name, status_code, results) ==
   IF fetch_failed(status_code)
   THEN search_error(HTTPException(status_code, <<"Failed to fetch characters">>))
   ELSE Returned(fetch_result(search_name, results))

search_replied ==
   /\ pc = "await"
   /\ endpoint = "/characters/search/{name}"
   /\ \E a \in Answers :
      LET status_code == a[1]
          results     == a[2]
      IN /\ replies' = Append(replies, Reply(status_code, results))
         /\ response' = search_response(name, status_code, results)
         /\ pc' = "responded"
         /\ UNCHANGED <<endpoint, limit, offset, name, total_retrieved,
                        characters_comics, calls>>

(***************************************************************************)
(* `await client.get(...)` raises instead of returning a response (the     *)
(* connection fails, httpx's timeout runs out): no handler catches it.     *)
(***************************************************************************)
transport_fails ==
   /\ pc = "await"
   /\ response' = Unhandled
   /\ pc' = "responded"
   /\ UNCHANGED <<endpoint, limit, offset, name, total_retrieved,
                  characters_comics, calls, replies>>

Next ==
   \/ \E l \in SmallLimits, o \in 0..MaxOffset, now \in ClockReadings :
         get_characters_with_info(l, o, now)
   \/ characters_replied
   \/ \E l \in SmallLimits, o \in 0..MaxOffset, now \in ClockReadings :
         get_comics(l, o, now)
   \/ comics_replied
   \/ \E l \in AggregationLimits, o \in 0..MaxOffset :
         get_all_characters_names(l, o)
   \/ \E now \in ClockReadings : loop_call(now)
   \/ loop_exit
   \/ page_replied
   \/ \E n \in Queries, l \in SmallLimits, o \in 0..MaxOffset, now \in ClockReadings :
         get_character_by_name(n, l, o, now)
   \/ character_replied
   \/ \E n \in Queries, l \in SmallLimits, now \in ClockReadings :
         search_characters_endpoint(n, l, now)
   \/ search_replied
   \/ transport_fails

Spec == Init /\ [][Next]_vars

\* the steps the server takes by itself once a request is being served
Serve ==
   \/ \E now \in ClockReadings : loop_call(now)
   \/ loop_exit
   \/ characters_replied
   \/ comics_replied
   \/ page_replied
   \/ character_replied
   \/ search_replied
   \/ transport_fails

\* a handler that can run does run, and every call is answered or fails
FairSpec == Spec /\ WF_vars(Serve)

(***************************************************************************)
(* The properties.                                                         *)
(***************************************************************************)
Aggregating == endpoint = "/characters_all"

NameLookup == endpoint \in {"/characters/{character_name}", "/characters/search/{name}"}

LastReply == replies[Len(replies)]

\* the number of entries of the i-th page, and the size asked of it
Count(i) == Len(replies[i].results)

Asked(i) == calls[i].params.limit

\* some page held more entries than were asked of it
Oversized == \E i \in 1..Len(replies) : Count(i) > Asked(i)

CeilDiv(a, b) == (a + b - 1) \div b

RECURSIVE SumCount(_)
\* the entries of the first k pages
SumCount(k) == IF k = 0 THEN 0 ELSE SumCount(k - 1) + Count(k)

RECURSIVE SumAsked(_)
\* the sizes asked of the first k pages
SumAsked(k) == IF k = 0 THEN 0 ELSE SumAsked(k - 1) + Asked(k)

\* C1: one run of the aggregator makes at most ceil(limit / BATCH_SIZE)
\* upstream calls, whatever the sizes of the pages
CallsWithinCeiling ==
   Aggregating => Len(calls) <= CeilDiv(limit, BATCH_SIZE)

\* a run of three calls, as many as its limit may take
ThreeCallsAtCeiling ==
   /\ Aggregating
   /\ pc = "responded"
   /\ Len(calls) = 3
   /\ CeilDiv(limit, BATCH_SIZE) = 3

\* C2: while no page holds more than was asked of it, total_retrieved never
\* exceeds the limit, and neither the mapping being built nor the mapping
\* returned has more than `limit` names
BoundedByLimit ==
   (Aggregating /\ ~Oversized) =>
      /\ total_retrieved <= limit
      /\ Cardinality(DOMAIN characters_comics) <= limit
      /\ (pc = "responded" /\ "body" \in DOMAIN response)
            => Cardinality(DOMAIN response.body) <= limit

\* two full pages that fill the limit exactly, every name distinct
LimitFilledInTwoPages ==
   /\ Aggregating
   /\ ~Oversized
   /\ pc = "responded"
   /\ Len(calls) = 2
   /\ total_retrieved = limit
   /\ "body" \in DOMAIN response
   /\ Cardinality(DOMAIN response.body) = limit

\* the aggregator has taken in a page and stands at the loop's head or has returned
PageTaken ==
   /\ Aggregating
   /\ pc \in {"loop", "responded"}
   /\ Len(replies) >= 1
   /\ Len(replies) = Len(calls)
   /\ LastReply.status_code = 200

\* no further page will be asked for
LoopDone == ~another_page

\* C3: after each page the loop is done exactly when total_retrieved >= limit
\* or the page held fewer entries than were asked of it; so every page
\* before the last one asked for was a full one
TerminalCondition ==
   /\ PageTaken =>
         (LoopDone <=> (total_retrieved >= limit
                           \/ Count(Len(replies)) < Asked(Len(replies))))
   /\ Aggregating =>
         \A i \in 1..(Len(calls) - 1) :
            replies[i].status_code = 200 /\ Count(i) >= Asked(i)

\* the second page is short and ends the run below the limit
ShortSecondPageEndsRun ==
   /\ PageTaken
   /\ pc = "responded"
   /\ Len(calls) = 2
   /\ Count(2) < Asked(2)
   /\ total_retrieved < limit

\* C4: a page answered with a status other than 200 is the last call of the
\* run, and the caller gets an error of that status and no mapping
AbortOnUpstreamFailure ==
   Aggregating =>
      \A i \in 1..Len(replies) :
         replies[i].status_code # 200 =>
            /\ i = Len(calls)
            /\ pc = "responded"
            /\ response.status_code = replies[i].status_code
            /\ "detail" \in DOMAIN response
            /\ "body" \notin DOMAIN response

\* the second page fails after the first was taken into the mapping
SecondPageFails ==
   /\ Aggregating
   /\ Len(replies) = 2
   /\ replies[2].status_code = 500
   /\ Cardinality(DOMAIN characters_comics) = BATCH_SIZE
   /\ pc = "responded"

\* the error an endpoint raises for an upstream response that is not 200
IsUpstreamError(r) ==
   /\ "detail" \in DOMAIN r
   /\ r.detail[1] \in {"Failed to fetch characters", "Failed to fetch comics",
                       "Error searching for character: "}

\* C5: at every endpoint an upstream status other than 200 reaches the caller
\* unchanged, in the endpoint's upstream error, and a 200 never gives that error
StatusPropagated ==
   (pc = "responded" /\ Len(replies) >= 1 /\ Len(replies) = Len(calls)) =>
      IF LastReply.status_code # 200
      THEN IsUpstreamError(response) /\ response.status_code = LastReply.status_code
      ELSE ~IsUpstreamError(response)

\* the search wrapper has raised the upstream's 401 again
SearchPassesStatusOn ==
   /\ endpoint = "/characters/search/{name}"
   /\ pc = "responded"
   /\ Len(replies) = 1
   /\ replies[1].status_code = 401
   /\ response.status_code = 401

RECURSIVE BeginsWith(_, _, _, _)
\* s, from position j on, begins with q[i..]: letters compared without case,
\* a space of q standing for any run of whitespace and hyphens
BeginsWith(q, i, s, j) ==
   IF i > Len(q) THEN TRUE
   ELSE IF q[i] = 32
        THEN \/ BeginsWith(q, i + 1, s, j)
             \/ (j <= Len(s) /\ s[j] \in (Whitespace \cup {45})
                 /\ BeginsWith(q, i, s, j + 1))
        ELSE j <= Len(s) /\ Lower(s[j]) = Lower(q[i])
             /\ BeginsWith(q, i + 1, s, j + 1)

\* the entries of the page, in page order, whose name begins with q
Matching(q, page) ==
   LET kept == SelectSeq(page, LAMBDA char : BeginsWith(q, 1, char.name, 1))
   IN  [k \in 1..Len(kept) |->
          [name |-> kept[k].name, comics_count |-> kept[k].comics.available]]

\* the names of a list of entries
NamesOf(entries) == {entries[k].name : k \in 1..Len(entries)}

\* a name lookup has been answered 200 by the upstream and has responded
LookupAnswered ==
   /\ NameLookup
   /\ pc = "responded"
   /\ Len(replies) = 1
   /\ replies[1].status_code = 200

\* C6: a name lookup whose filtered result is empty ends in a 404 and never
\* in a 200 with an empty body, at both name lookup endpoints
NotFoundWhenEmpty ==
   (LookupAnswered /\ Matching(name, replies[1].results) = <<>>) =>
      /\ response.status_code = 404
      /\ "body" \notin DOMAIN response

\* the same, of GET /characters/{character_name} alone
NotFoundWhenEmptyByName ==
   (LookupAnswered /\ endpoint = "/characters/{character_name}"
       /\ Matching(name, replies[1].results) = <<>>) =>
      /\ response.status_code = 404
      /\ "body" \notin DOMAIN response

\* what the endpoint makes of the list fetch_character_batch returns
Shown(entries) ==
   IF endpoint = "/characters/search/{name}" THEN Returned(entries)
   ELSE IF entries = <<>>
        THEN HTTPException(404, <<"No character found with name ", name>>)
        ELSE Returned([n \in NamesOf(entries) |->
                        LET k == CHOOSE k \in 1..Len(entries) :
                                    /\ entries[k].name = n
                                    /\ \A m \in (k + 1)..Len(entries) : entries[m].name # n
                        IN  entries[k].comics_count])

\* C7: for every non-empty query q the fetch makes its call and, of a page P,
\* returns exactly the entries whose name begins with q, in page order
FilterExact ==
   (NameLookup /\ pc = "responded") =>
      /\ Len(calls) = 1
      /\ LookupAnswered => response = Shown(Matching(name, replies[1].results))

\* the same, of the queries that hold a word
FilterExactOfWords ==
   (NameLookup /\ pc = "responded" /\ \E i \in 1..Len(name) : name[i] \notin Whitespace) =>
      /\ Len(calls) = 1
      /\ LookupAnswered => response = Shown(Matching(name, replies[1].results))

HexDigits == (48..57) \cup (97..102)

\* C8: every upstream call carries ts, apikey and hash, apikey the public key
\* and hash the 32 hexadecimal digits of the MD5 of ts, private key and public
\* key joined, ts being the one the call carries; calls of one ts carry one hash
CallsSigned ==
   /\ \A i \in 1..Len(calls) :
         LET p == calls[i].params
         IN  /\ {"ts", "apikey", "hash"} \subseteq DOMAIN p
             /\ p.apikey = PUBLIC_KEY
             /\ Len(p.hash) = 32
             /\ \A k \in 1..32 : p.hash[k] \in HexDigits
             /\ \A j \in 1..Len(calls) :
                   calls[j].params.ts = p.ts => calls[j].params.hash = p.hash
   /\ pc = "await" =>
         request.params.hash
            = hexdigest(md5(request.params.ts \o PRIVATE_KEY \o PUBLIC_KEY))

\* the second page is asked for at the clock reading of the first
TwoCallsOneTimestamp ==
   /\ pc = "await"
   /\ Len(calls) = 2
   /\ calls[1].params.ts = calls[2].params.ts

\* C9: the aggregation ends, whatever the upstream answers, and a page after
\* which the loop goes on has added to total_retrieved
AggregationTerminates ==
   /\ Aggregating ~> (pc = "responded")
   /\ [][(pc = "await" /\ pc' = "loop") => total_retrieved' > total_retrieved]_vars

\* a run that went round the loop twice and returned its mapping
ReturnedAfterThreePages ==
   /\ Aggregating
   /\ pc = "responded"
   /\ Len(replies) = 3
   /\ "body" \in DOMAIN response

\* C10: each page is asked for at offset + total_retrieved, with a size from
\* 1 to BATCH_SIZE; while no page holds more than was asked, that offset is
\* the starting offset plus the sizes asked so far, and the page lies within
\* [offset, offset + limit)
OffsetsAdvance ==
   Aggregating =>
      \A i \in 1..Len(calls) :
         LET p == calls[i].params
         IN  /\ p.limit >= 1
             /\ p.limit <= BATCH_SIZE
             /\ p.offset = offset + SumCount(i - 1)
             /\ (\A j \in 1..(i - 1) : Count(j) <= Asked(j))
                   => /\ p.offset = offset + SumAsked(i - 1)
                      /\ p.offset + p.limit <= offset + limit

\* the third page of a run that starts at offset 1 is being asked for
ThirdWindowAsked ==
   /\ Aggregating
   /\ pc = "await"
   /\ Len(calls) = 3
   /\ offset = 1
   /\ ~Oversized
====
